---- MODULE Spec2Model ----
(***************************************************************************)
(* Model of the audio loopback program (src/main.rs): the orchestrator     *)
(* (fn main), the capture callback (input_data_fn), the playback callback  *)
(* (output_data_fn) and the single-producer/single-consumer ring between   *)
(* them.  A sample is modelled by its identity: the primed and the         *)
(* substituted silence are 0, the k-th captured sample is the number k.    *)
(***************************************************************************)
EXTENDS Integers, Sequences, FiniteSets, TLC

\* ---- bounds of the model ----
MaxLatencyMs == 1
MaxChannels == 2
MaxBatch == 2
MaxCaptured == 3

\* ---- program constants ----
PrimeSample == 0
Silence == 0
MsPerSecond == 1000

\* usize is modelled with UsizeBits bits (the target's has 32 or 64): the casts of
\* line 52 saturate at UsizeMax and the products of lines 52 and 54 are taken
\* modulo UsizeModulus in a build without overflow checks
UsizeBits == 4
UsizeModulus == 2 ^ UsizeBits
UsizeMax == UsizeModulus - 1

\* a latency whose depth does not fit in usize
OverflowLatencyMs == UsizeModulus

\* ---- inputs ----
LatencyValues == (0..MaxLatencyMs) \cup {OverflowLatencyMs}
SampleRates == {500, 1000}
ChannelCounts == 1..MaxChannels
BatchLengths == 0..MaxBatch

\* the content of an empty slot and the value of a pop that returns nothing
Nil == -1

VARIABLES
    latency, sample_rate, channels,   \* opt.latency, config.sample_rate.0, config.channels
    pc,                               \* position of fn main
    panicAt,                          \* the statement of fn main that panicked
    latency_samples,
    ring,                             \* the RingBuffer shared by producer and consumer
    i,                                \* counter of the priming loop
    inStream, outStream,              \* input_stream, output_stream
    inPlays, outPlays,                \* successful play() calls on each stream
    capPc, capData, capI, output_fell_behind, capReports,
    playPc, playN, playData, input_fell_behind, playReports,
    nextSample,                       \* identity of the next captured sample
    pushed, popped,                   \* history: values of successful pushes / pops
    dropped,                          \* history: captured samples whose push failed
    capFails, capStartLen, capStartPops,    \* history of the running capture invocation
    playMiss, playStartLen, playStartPushes, playStartPops, \* history of the running playback invocation
    capPopSinceFail,                  \* history: a pop succeeded after the latest failed push of the invocation
    playPushSinceMiss                 \* history: a push succeeded after the latest empty pop of the invocation

inputVars == <<latency, sample_rate, channels>>
mainVars == <<pc, panicAt, latency_samples, i, inStream, outStream, inPlays, outPlays>>
capVars == <<capPc, capData, capI, output_fell_behind, capReports>>
playVars == <<playPc, playN, playData, input_fell_behind, playReports>>
capHist == <<capFails, capStartLen, capStartPops, capPopSinceFail>>
playHist == <<playMiss, playStartLen, playStartPushes, playStartPops, playPushSinceMiss>>
vars == <<inputVars, mainVars, ring, capVars, playVars, nextSample, pushed, popped,
          dropped, capHist, playHist>>

\* ---- the ring buffer (ringbuf::RingBuffer, Producer::push, Consumer::pop) ----
NoRing == [data |-> << >>, head |-> 0, tail |-> 0]

RingNew(capacity) ==
    [data |-> [k \in 0..capacity |-> Nil], head |-> 0, tail |-> 0]

RingSize(r) == Cardinality(DOMAIN r.data)

RingLen(r) == (r.tail + RingSize(r) - r.head) % RingSize(r)

RECURSIVE RingContents(_)
RingContents(r) ==
    IF r.head = r.tail THEN << >>
    ELSE <<r.data[r.head]>> \o
         RingContents([r EXCEPT !.head = (r.head + 1) % RingSize(r)])

Push(r, v) ==
    IF (r.tail + 1) % RingSize(r) = r.head
    THEN [ok |-> FALSE, ring |-> r]
    ELSE [ok |-> TRUE,
          ring |-> [r EXCEPT !.data[r.tail] = v,
                             !.tail = (r.tail + 1) % RingSize(r)]]

Pop(r) ==
    IF r.head = r.tail
    THEN [ok |-> FALSE, val |-> Nil, ring |-> r]
    ELSE [ok |-> TRUE, val |-> r.data[r.head],
          ring |-> [r EXCEPT !.data[r.head] = Nil,
                             !.head = (r.head + 1) % RingSize(r)]]

\* ---- latency depth (main.rs lines 51-54) ----
\* line 52, `latency_frames as usize`: the cast truncates toward zero and
\* saturates (a negative frame count becomes 0, a large one UsizeMax)
LatencyFrames(ms, rate) ==
    IF ms * rate < 0 THEN 0
    ELSE IF (ms * rate) \div MsPerSecond > UsizeMax THEN UsizeMax
    ELSE (ms * rate) \div MsPerSecond

\* a product of two usize values, wrapped
WrappingMul(a, b) == (a * b) % UsizeModulus

\* line 52
LatencySamples(ms, rate, ch) == WrappingMul(LatencyFrames(ms, rate), ch)

\* lines 52 and 54: one of the two products does not fit in usize
DepthOverflows(ms, rate, ch) ==
    \/ LatencyFrames(ms, rate) * ch > UsizeMax
    \/ LatencySamples(ms, rate, ch) * 2 > UsizeMax

\* variants of RingCapacity: one slot too many; the doubling forgotten
RingCapacityPlusOne(samples) == samples * 2 + 1

RingCapacitySingle(samples) == samples

RingCapacity(samples) == WrappingMul(samples, 2)

\* variants of PrimeCount: the inclusive range 0..=latency_samples; the range
\* 1..latency_samples
PrimeCountInclusive(samples) == samples + 1

PrimeCountShort(samples) == IF samples > 0 THEN samples - 1 ELSE 0

\* line 57: the number of iterations of the priming loop, 0..latency_samples
PrimeCount(samples) == samples

Init ==
    /\ latency \in LatencyValues
    /\ sample_rate \in SampleRates
    /\ channels \in ChannelCounts
    /\ pc = "Configured"
    /\ panicAt = "none"
    /\ latency_samples = 0
    /\ ring = NoRing
    /\ i = 0
    /\ inStream = "none" /\ outStream = "none"
    /\ inPlays = 0 /\ outPlays = 0
    /\ capPc = "idle" /\ capData = << >> /\ capI = 0
    /\ output_fell_behind = FALSE /\ capReports = 0
    /\ playPc = "idle" /\ playN = 0 /\ playData = << >>
    /\ input_fell_behind = FALSE /\ playReports = 0
    /\ nextSample = 1
    /\ pushed = << >> /\ popped = << >> /\ dropped = {}
    /\ capFails = 0 /\ capStartLen = 0 /\ capStartPops = 0
    /\ playMiss = {} /\ playStartLen = 0 /\ playStartPushes = 0 /\ playStartPops = 0
    /\ capPopSinceFail = FALSE /\ playPushSinceMiss = FALSE

\* ---- fn main ----
\* lines 51-55: compute the latency depth, build the ring, split it
\* an overflowing product panics in a build with overflow checks and wraps in one without
Construct ==
    /\ pc = "Configured"
    /\ \E overflow_checks \in BOOLEAN :
         IF overflow_checks /\ DepthOverflows(latency, sample_rate, channels)
         THEN /\ pc' = "Panicked" /\ panicAt' = "overflow"
              /\ UNCHANGED <<latency_samples, ring>>
         ELSE /\ latency_samples' = LatencySamples(latency, sample_rate, channels)
              /\ ring' = RingNew(RingCapacity(latency_samples'))
              /\ pc' = "Priming" /\ panicAt' = panicAt
    /\ i' = 0
    /\ UNCHANGED <<inputVars, inStream, outStream, inPlays, outPlays, capVars, playVars,
                   nextSample, pushed, popped, dropped, capHist, playHist>>

\* lines 57-59: one iteration of the priming loop; unwrap() panics on Full
PrimePush ==
    /\ pc = "Priming"
    /\ i < PrimeCount(latency_samples)
    /\ LET res == Push(ring, PrimeSample) IN
         IF res.ok
         THEN /\ ring' = res.ring
              /\ i' = i + 1
              /\ pushed' = Append(pushed, PrimeSample)
              /\ pc' = pc /\ panicAt' = panicAt
         ELSE /\ pc' = "Panicked" /\ panicAt' = "prime"
              /\ UNCHANGED <<ring, i, pushed>>
    /\ UNCHANGED <<inputVars, latency_samples, inStream, outStream, inPlays, outPlays,
                   capVars, playVars, nextSample, popped, dropped, capHist, playHist>>

\* line 57: the priming loop ends
PrimeDone ==
    /\ pc = "Priming"
    /\ i >= PrimeCount(latency_samples)
    /\ pc' = "Primed"
    /\ UNCHANGED <<inputVars, panicAt, latency_samples, i, inStream, outStream, inPlays, outPlays,
                   ring, capVars, playVars, nextSample, pushed, popped, dropped,
                   capHist, playHist>>

\* A built stream may or may not run before play() is called (platform dependent).
BuiltStates == {"built", "playing"}

\* lines 93-95: build_input_stream(...).unwrap()
BuildInput ==
    /\ pc = "Primed"
    /\ \E ok \in BOOLEAN, st \in BuiltStates :
         IF ok
         THEN inStream' = st /\ pc' = "InputBuilt" /\ panicAt' = panicAt
         ELSE inStream' = inStream /\ pc' = "Panicked" /\ panicAt' = "build_input"
    /\ UNCHANGED <<inputVars, latency_samples, i, outStream, inPlays, outPlays,
                   ring, capVars, playVars, nextSample, pushed, popped, dropped,
                   capHist, playHist>>

\* lines 96-98: build_output_stream(...).unwrap()
BuildOutput ==
    /\ pc = "InputBuilt"
    /\ \E ok \in BOOLEAN, st \in BuiltStates :
         IF ok
         THEN outStream' = st /\ pc' = "Built" /\ panicAt' = panicAt
         ELSE outStream' = outStream /\ pc' = "Panicked" /\ panicAt' = "build_output"
    /\ UNCHANGED <<inputVars, latency_samples, i, inStream, inPlays, outPlays,
                   ring, capVars, playVars, nextSample, pushed, popped, dropped,
                   capHist, playHist>>

\* line 106: input_stream.play().unwrap()
PlayInput ==
    /\ pc = "Built"
    /\ \E ok \in BOOLEAN :
         IF ok
         THEN /\ inStream' = "playing" /\ inPlays' = inPlays + 1
              /\ pc' = "InputStarted" /\ panicAt' = panicAt
         ELSE /\ UNCHANGED <<inStream, inPlays>>
              /\ pc' = "Panicked" /\ panicAt' = "play"
    /\ UNCHANGED <<inputVars, latency_samples, i, outStream, outPlays,
                   ring, capVars, playVars, nextSample, pushed, popped, dropped,
                   capHist, playHist>>

\* line 107: input_stream.play().unwrap(), a second time on the input stream
PlayInputAgain ==
    /\ pc = "InputStarted"
    /\ \E ok \in BOOLEAN :
         IF ok
         THEN /\ inStream' = "playing" /\ inPlays' = inPlays + 1
              /\ pc' = "Running" /\ panicAt' = panicAt
         ELSE /\ UNCHANGED <<inStream, inPlays>>
              /\ pc' = "Panicked" /\ panicAt' = "play"
    /\ UNCHANGED <<inputVars, latency_samples, i, outStream, outPlays,
                   ring, capVars, playVars, nextSample, pushed, popped, dropped,
                   capHist, playHist>>

\* variant of StreamAfterDrop: the stream outlives the drop
StreamAfterDropKept(st) == st

\* lines 111-112: drop(stream) closes the stream, whatever state it was in
StreamAfterDrop(st) == "dropped"

\* lines 110-111: the sleep ends, drop(input_stream) waits for a running callback
DropInput ==
    /\ pc = "Running"
    /\ capPc = "idle"
    /\ inStream' = StreamAfterDrop(inStream)
    /\ pc' = "InputDropped"
    /\ UNCHANGED <<inputVars, panicAt, latency_samples, i, outStream, inPlays, outPlays,
                   ring, capVars, playVars, nextSample, pushed, popped, dropped,
                   capHist, playHist>>

\* lines 112-115: drop(output_stream), then Ok(())
DropOutput ==
    /\ pc = "InputDropped"
    /\ playPc = "idle"
    /\ outStream' = StreamAfterDrop(outStream)
    /\ pc' = "Stopped"
    /\ UNCHANGED <<inputVars, panicAt, latency_samples, i, inStream, inPlays, outPlays,
                   ring, capVars, playVars, nextSample, pushed, popped, dropped,
                   capHist, playHist>>

\* a panic of fn main unwinds: locals are dropped in reverse order of declaration
UnwindOutput ==
    /\ pc = "Panicked"
    /\ outStream \in BuiltStates
    /\ playPc = "idle"
    /\ outStream' = "dropped"
    /\ UNCHANGED <<inputVars, pc, panicAt, latency_samples, i, inStream, inPlays, outPlays,
                   ring, capVars, playVars, nextSample, pushed, popped, dropped,
                   capHist, playHist>>

UnwindInput ==
    /\ pc = "Panicked"
    /\ outStream \notin BuiltStates
    /\ inStream \in BuiltStates
    /\ capPc = "idle"
    /\ inStream' = "dropped"
    /\ UNCHANGED <<inputVars, pc, panicAt, latency_samples, i, outStream, inPlays, outPlays,
                   ring, capVars, playVars, nextSample, pushed, popped, dropped,
                   capHist, playHist>>

\* the process exits with the panic's non-zero status
Abort ==
    /\ pc = "Panicked"
    /\ outStream \notin BuiltStates
    /\ inStream \notin BuiltStates
    /\ pc' = "Failed"
    /\ UNCHANGED <<inputVars, panicAt, latency_samples, i, inStream, outStream, inPlays, outPlays,
                   ring, capVars, playVars, nextSample, pushed, popped, dropped,
                   capHist, playHist>>

\* ---- input_data_fn (lines 61-71) ----
\* the batch the audio subsystem hands over: the next n captured samples
CaptureBatch(first, n) == [k \in 1..n |-> first + k - 1]

\* variants of BatchSample: the first sample read every time; the batch read backwards
BatchSampleFirst(data, k) == data[1]

BatchSampleReversed(data, k) == data[Len(data) - k]

\* line 63: the sample the k-th iteration (k from 0) of `for &sample in data` reads
BatchSample(data, k) == data[k + 1]

\* variant of IsErr: is_ok() in place of is_err()
IsErrInverted(res) == res.ok

\* line 64: producer.push(sample).is_err()
IsErr(res) == ~res.ok

\* variant of FlagAfter: the flag assigned on every iteration
FlagAfterOverwritten(flag, failed) == failed

\* lines 64-66, 78-79: the fell-behind flag is set on a failure and never cleared
FlagAfter(flag, failed) == IF failed THEN TRUE ELSE flag

\* lines 68-70, 84-86: eprintln! once if the flag is set
ReportsAfterSilent(reports, flag) == reports

ReportsAfter(reports, flag) == IF flag THEN reports + 1 ELSE reports

\* variant of LoopAfter: the result is unwrapped, a failure panics the callback
LoopAfterUnwrap(failed) == IF failed THEN "panicked" ELSE "loop"

\* lines 64-66, 76-82: a failed push or pop only sets the flag (and substitutes
\* silence); the callback stays in its loop
LoopAfter(failed) == "loop"

\* variants of NextIndex: the loop is left at the first failure; a failed push is retried
NextIndexBreak(k, n, failed) == IF failed THEN n ELSE k + 1

NextIndexRetry(k, n, failed) == IF failed THEN k ELSE k + 1

\* lines 63-67: after the k-th of n iterations the loop goes on with the next
\* sample, whether the push failed or not
NextIndex(k, n, failed) == k + 1

\* variant of ProducerPush: on a full ring the oldest sample is overwritten
ProducerPushOverwrite(r, v) ==
    IF Push(r, v).ok THEN Push(r, v)
    ELSE IF r.head = r.tail THEN Push(r, v)
    ELSE [ok |-> TRUE, ring |-> Push(Pop(r).ring, v).ring]

\* line 64: the capture callback uses its endpoint through producer.push only
ProducerPushEvict(r, v) ==
    IF Push(r, v).ok THEN Push(r, v)
    ELSE [ok |-> FALSE, ring |-> Pop(r).ring]

ProducerPush(r, v) == Push(r, v)

\* lines 61-62: the callback is entered, output_fell_behind = false
CaptureInvoke ==
    /\ inStream = "playing"
    /\ capPc = "idle"
    /\ \E n \in BatchLengths :
         /\ nextSample + n - 1 <= MaxCaptured
         /\ capData' = CaptureBatch(nextSample, n)
         /\ nextSample' = nextSample + n
    /\ capI' = 0
    /\ output_fell_behind' = FALSE
    /\ capReports' = 0
    /\ capPc' = "loop"
    /\ capFails' = 0
    /\ capStartLen' = Len(pushed) - Len(popped)
    /\ capStartPops' = Len(popped)
    /\ capPopSinceFail' = FALSE
    /\ UNCHANGED <<inputVars, mainVars, ring, playVars, pushed, popped, dropped, playHist>>

\* lines 63-67: one iteration of the loop over the batch
CapturePush ==
    /\ capPc = "loop"
    /\ capI < Len(capData)
    /\ LET sample == BatchSample(capData, capI)
           res == ProducerPush(ring, sample) IN
         /\ ring' = res.ring
         /\ output_fell_behind' = FlagAfter(output_fell_behind, IsErr(res))
         /\ capI' = NextIndex(capI, Len(capData), IsErr(res))
         /\ capPc' = LoopAfter(IsErr(res))
         /\ IF res.ok
            THEN /\ pushed' = Append(pushed, sample)
                 /\ playPushSinceMiss' = (playMiss # {})
                 /\ UNCHANGED <<dropped, capFails, capPopSinceFail>>
            ELSE /\ dropped' = dropped \cup {sample}
                 /\ capFails' = capFails + 1
                 /\ capPopSinceFail' = FALSE
                 /\ UNCHANGED <<pushed, playPushSinceMiss>>
    /\ UNCHANGED <<inputVars, mainVars, capData, capReports, playVars, nextSample,
                   popped, capStartLen, capStartPops,
                   playMiss, playStartLen, playStartPushes, playStartPops>>

\* lines 68-70: after the loop, one eprintln! if the flag is set
CaptureReport ==
    /\ capPc = "loop"
    /\ capI >= Len(capData)
    /\ capReports' = ReportsAfter(capReports, output_fell_behind)
    /\ capPc' = "return"
    /\ UNCHANGED <<inputVars, mainVars, ring, capData, capI, output_fell_behind, playVars,
                   nextSample, pushed, popped, dropped, capHist, playHist>>

\* line 71: the callback returns
CaptureReturn ==
    /\ capPc = "return"
    /\ capPc' = "idle"
    /\ capData' = << >> /\ capI' = 0
    /\ output_fell_behind' = FALSE /\ capReports' = 0
    /\ capFails' = 0 /\ capStartLen' = 0 /\ capStartPops' = 0
    /\ capPopSinceFail' = FALSE
    /\ UNCHANGED <<inputVars, mainVars, ring, playVars, nextSample, pushed, popped,
                   dropped, playHist>>

\* ---- output_data_fn (lines 73-87) ----
\* variant of SlotValue: the substitute on an empty channel is not silence
SlotValueNotSilent(res) == IF res.ok THEN res.val ELSE Silence + 1

\* lines 76-82: the value written to the slot
SlotValue(res) == IF res.ok THEN res.val ELSE Silence

\* line 76: the playback callback uses its endpoint through consumer.pop only
ConsumerPop(r) == Pop(r)

\* lines 73-74: the callback is entered with n slots to fill
PlaybackInvoke ==
    /\ outStream = "playing"
    /\ playPc = "idle"
    /\ \E n \in BatchLengths : playN' = n
    /\ playData' = << >>
    /\ input_fell_behind' = FALSE
    /\ playReports' = 0
    /\ playPc' = "loop"
    /\ playMiss' = {}
    /\ playStartLen' = Len(pushed) - Len(popped)
    /\ playStartPushes' = Len(pushed)
    /\ playStartPops' = Len(popped)
    /\ playPushSinceMiss' = FALSE
    /\ UNCHANGED <<inputVars, mainVars, ring, capVars, nextSample, pushed, popped,
                   dropped, capHist>>

\* lines 75-83: one iteration of the loop over the slots
PlaybackPop ==
    /\ playPc = "loop"
    /\ Len(playData) < playN
    /\ LET res == ConsumerPop(ring) IN
         /\ ring' = res.ring
         /\ playPc' = LoopAfter(~res.ok)
         /\ playData' = Append(playData, SlotValue(res))
         /\ input_fell_behind' = FlagAfter(input_fell_behind, ~res.ok)
         /\ IF res.ok
            THEN /\ popped' = Append(popped, res.val)
                 /\ capPopSinceFail' = (capFails > 0)
                 /\ UNCHANGED <<playMiss, playPushSinceMiss>>
            ELSE /\ playMiss' = playMiss \cup {Len(playData) + 1}
                 /\ playPushSinceMiss' = FALSE
                 /\ UNCHANGED <<popped, capPopSinceFail>>
    /\ UNCHANGED <<inputVars, mainVars, capVars, playN, playReports, nextSample,
                   pushed, dropped, capFails, capStartLen, capStartPops,
                   playStartLen, playStartPushes, playStartPops>>

\* lines 84-86: after the loop, one eprintln! if the flag is set
PlaybackReport ==
    /\ playPc = "loop"
    /\ Len(playData) >= playN
    /\ playReports' = ReportsAfter(playReports, input_fell_behind)
    /\ playPc' = "return"
    /\ UNCHANGED <<inputVars, mainVars, ring, capVars, playN, playData, input_fell_behind,
                   nextSample, pushed, popped, dropped, capHist, playHist>>

\* line 87: the callback returns
PlaybackReturn ==
    /\ playPc = "return"
    /\ playPc' = "idle"
    /\ playN' = 0 /\ playData' = << >>
    /\ input_fell_behind' = FALSE /\ playReports' = 0
    /\ playMiss' = {} /\ playStartLen' = 0 /\ playStartPushes' = 0 /\ playStartPops' = 0
    /\ playPushSinceMiss' = FALSE
    /\ UNCHANGED <<inputVars, mainVars, ring, capVars, nextSample, pushed, popped,
                   dropped, capHist>>

Next ==
    \/ Construct
    \/ PrimePush
    \/ PrimeDone
    \/ BuildInput
    \/ BuildOutput
    \/ PlayInput
    \/ PlayInputAgain
    \/ DropInput
    \/ DropOutput
    \/ UnwindOutput
    \/ UnwindInput
    \/ Abort
    \/ CaptureInvoke
    \/ CapturePush
    \/ CaptureReport
    \/ CaptureReturn
    \/ PlaybackInvoke
    \/ PlaybackPop
    \/ PlaybackReport
    \/ PlaybackReturn

Spec == Init /\ [][Next]_vars

\* ---- properties ----
\* the ring has been constructed (line 54 has run)
RingBuilt == ring # NoRing

\* the number of samples enqueued, counted from the history
InFlight == Len(pushed) - Len(popped)

\* the capacity C the properties speak of
CapacityC == 2 * latency_samples

Zeros(n) == [k \in 1..n |-> 0]

IsPrefix(s, t) == Len(s) <= Len(t) /\ SubSeq(t, 1, Len(s)) = s

\* the captured samples whose push has been attempted so far
Attempted == 1..(nextSample - 1 - (Len(capData) - capI))

\* n consecutive pops on ring r: the sequence of their results
RECURSIVE Drain(_, _)
Drain(r, n) ==
    IF n = 0 THEN << >>
    ELSE LET res == Pop(r) IN
         <<[ok |-> res.ok, val |-> res.val]>> \o Drain(res.ring, n - 1)

\* C1 (FIFO order): at every moment the values returned by the successful pops
\* are a prefix of the primed zeros followed by the successfully pushed captured
\* samples; those are the attempted samples that were not dropped, each once and
\* in capture order.
C1_FifoOrder ==
    /\ IsPrefix(popped, pushed)
    /\ \A k \in 1..Len(pushed) :
         IF k <= i THEN pushed[k] = 0
         ELSE /\ pushed[k] \in Attempted \ dropped
              /\ k < Len(pushed) => pushed[k] < pushed[k + 1]
    /\ Len(pushed) = i + Cardinality(Attempted \ dropped)

C1_Witness ==
    /\ dropped # {}
    /\ Len(popped) > i
    /\ Len(popped) >= 2
    /\ popped[Len(popped)] > Cardinality(dropped) + 1

\* C2 (capacity bound): once the channel exists, the number of samples enqueued
\* is at least 0 and at most C = 2 * latency_samples, during priming and under
\* every interleaving of the callbacks.
C2_CapacityBound ==
    RingBuilt =>
        /\ 0 <= InFlight
        /\ InFlight <= 2 * latency_samples
        /\ RingLen(ring) = InFlight

C2_Witness ==
    /\ latency_samples > 0
    /\ InFlight = 2 * latency_samples
    /\ Len(popped) > 0
    /\ capPc = "loop"

\* C3 (full/empty correctness): a push of the capture callback is taken as failed
\* iff the channel holds exactly C samples at that moment, a pop of the playback
\* callback yields silence iff it holds 0 samples, and a failed push or pop leaves
\* the channel contents unchanged.
C3_FullEmpty ==
    [][ /\ capI' = capI + 1 =>
             /\ output_fell_behind' /\ ~output_fell_behind => InFlight = CapacityC
             /\ InFlight = CapacityC => output_fell_behind' /\ capFails' = capFails + 1
             /\ InFlight # CapacityC => pushed' = Append(pushed, BatchSample(capData, capI))
             /\ capFails' = capFails + 1 =>
                    InFlight = CapacityC /\ ring' = ring /\ pushed' = pushed
        /\ Len(playData') = Len(playData) + 1 =>
             /\ playMiss' # playMiss <=> InFlight = 0
             /\ input_fell_behind' /\ ~input_fell_behind => InFlight = 0
             /\ InFlight = 0 => input_fell_behind' /\ ring' = ring /\ popped' = popped
             /\ InFlight # 0 => popped' = Append(popped, playData'[Len(playData')])
      ]_vars

C3_Witness ==
    /\ capFails > 0 /\ output_fell_behind
    /\ playMiss # {} /\ input_fell_behind
    /\ latency_samples > 0

\* C4 (priming): when the priming loop has finished and no callback has run, the
\* channel holds exactly D = latency_samples samples, all 0; D pops on it each
\* return 0 and the (D+1)-th pop returns nothing.
C4_Priming ==
    pc = "Primed" =>
        /\ RingContents(ring) = Zeros(latency_samples)
        /\ InFlight = latency_samples
        /\ Drain(ring, latency_samples + 1) =
             [k \in 1..(latency_samples + 1) |->
                IF k <= latency_samples THEN [ok |-> TRUE, val |-> 0]
                ELSE [ok |-> FALSE, val |-> Nil]]

C4_Witness == pc = "Primed" /\ latency_samples = 2 /\ RingLen(ring) = 2

\* the values popped by the running playback invocation, in order
PlayGot == SubSeq(popped, playStartPops + 1, Len(popped))

\* the slots of the running playback invocation that received a popped sample
PlayHits == (1..Len(playData)) \ playMiss

C7_DiagnosticRate ==
    /\ capPc = "loop" => capReports = 0
    /\ capPc = "return" => capReports = (IF capFails > 0 THEN 1 ELSE 0)
    /\ playPc = "loop" => playReports = 0
    /\ playPc = "return" => playReports = (IF playMiss # {} THEN 1 ELSE 0)

C7_Witness ==
    /\ latency_samples > 0
    /\ capPc = "return" /\ capFails = 2 /\ capReports = 1
    /\ playPc = "return" /\ Cardinality(playMiss) = 2 /\ playReports = 1

\* C8 (end-to-end relay): with capacity 2 * D and D primed zeros, a capture
\* invocation whose batch fits (samples enqueued at entry + batch <= 2 * D) drops
\* nothing and reports nothing; and a playback invocation of K <= D slots entered
\* when exactly the D primed zeros have been delivered and the first K captured
\* samples are enqueued returns exactly those K samples, in order, without
\* silence and without a report.
C8_EndToEndRelay ==
    /\ (capPc = "return" /\ capStartLen + Len(capData) <= 2 * latency_samples) =>
         /\ capFails = 0 /\ capReports = 0 /\ ~output_fell_behind
         /\ \A k \in 1..Len(capData) : capData[k] \notin dropped
    /\ (/\ playPc = "return"
        /\ playStartPops = latency_samples
        /\ playN <= latency_samples
        /\ playStartPushes >= latency_samples + playN) =>
         /\ playData = [k \in 1..playN |-> k]
         /\ playMiss = {} /\ playReports = 0 /\ ~input_fell_behind

C8_Witness ==
    /\ latency_samples = 2
    /\ playPc = "return" /\ playStartPops = 2 /\ playN = 2
    /\ playData = <<1, 2>>
    /\ dropped = {}

\* C9 (stream start order): in the Running state the input stream has been
\* started exactly once and the output stream exactly once.
C9_StartOrder ==
    pc = "Running" => inPlays = 1 /\ outPlays = 1

\* C10 (no partial success): a failed build or start ends the run with a fatal
\* error, and the run never settles in a state where exactly one of the two
\* directions has been started.
C10_NoPartialSuccess ==
    /\ pc = "Running" => (inStream = "playing" <=> outStream = "playing")
    /\ pc = "Failed" => inStream # "playing" /\ outStream # "playing"

\* a step in which a push of the capture callback fails
CaptureFullStep == capFails' = capFails + 1

\* a step in which a pop of the playback callback finds the channel empty
PlaybackEmptyStep == playMiss' # playMiss /\ playMiss' # {}

\* the pushes attempted by the running capture invocation
CapAttempts == capFails + (Len(pushed) - (capStartLen + capStartPops))

\* the pops attempted by the running playback invocation
PlayAttempts == Cardinality(playMiss) + (Len(popped) - playStartPops)

\* C11 (transient capacity errors are not propagated): a step in which a push of
\* the capture callback fails or a pop of the playback callback finds the channel
\* empty leaves the lifecycle and both streams as they are and the callback in
\* its loop; neither callback ever ends up in a failed state, a running stream
\* whose callback is idle can invoke it again, and the teardown steps that lead
\* to Stopped stay possible.
C11_TransientNotPropagated ==
  /\ []((inStream = "playing" /\ capPc = "idle") => ENABLED CaptureInvoke)
  /\ []((outStream = "playing" /\ playPc = "idle") => ENABLED PlaybackInvoke)
  /\ []((pc = "Running" /\ capPc = "idle") => ENABLED DropInput)
  /\ []((pc = "InputDropped" /\ playPc = "idle") => ENABLED DropOutput)
  /\ [][ /\ (CaptureFullStep \/ PlaybackEmptyStep) =>
               /\ pc' = pc /\ panicAt' = panicAt
               /\ inStream' = inStream /\ outStream' = outStream
         /\ CaptureFullStep => capPc' = "loop"
         /\ PlaybackEmptyStep => playPc' = "loop"
         /\ capPc' \in {"idle", "loop", "return"}
         /\ playPc' \in {"idle", "loop", "return"}
         /\ (pc' = "Panicked" /\ pc # "Panicked") =>
               capFails' = capFails /\ playMiss' = playMiss
       ]_vars

C11_Witness ==
    /\ pc = "Stopped" /\ panicAt = "none"
    /\ Cardinality(dropped) >= 2
    /\ Len(popped) > latency_samples
    /\ latency_samples > 0

\* C12 (non-blocking callbacks): an invocation with n samples (slots) makes one
\* push (pop) attempt per iteration, never more than n, and has made exactly n
\* when its loop ends; in every state of the invocation its own next step is
\* possible, whatever the channel holds and wherever the other callback stands.
C12_NonBlocking ==
    /\ capPc = "loop" =>
         /\ CapAttempts = capI /\ capI <= Len(capData)
         /\ ENABLED (CapturePush \/ CaptureReport)
    /\ capPc = "return" =>
         /\ CapAttempts = Len(capData)
         /\ ENABLED CaptureReturn
    /\ playPc = "loop" =>
         /\ PlayAttempts = Len(playData) /\ Len(playData) <= playN
         /\ ENABLED (PlaybackPop \/ PlaybackReport)
    /\ playPc = "return" =>
         /\ PlayAttempts = playN
         /\ ENABLED PlaybackReturn

C12_Witness ==
    /\ capPc = "return" /\ Len(capData) = 2 /\ capFails = 2
    /\ playPc = "idle" /\ outStream # "playing"

\* C13 (capture does not abort on Full): a failed push is followed by the attempt
\* for the next sample of the batch, every sample of the batch is attempted, and
\* after a failure a sample is enqueued whenever a slot is free at its push.
C13_NoAbortOnFull ==
    [][ /\ CaptureFullStep =>
              capPc' = "loop" /\ capI' = capI + 1 /\ capData' = capData
        /\ (capPc = "loop" /\ capPc' = "return") =>
              capI = Len(capData) /\ CapAttempts = Len(capData)
        /\ (capPc = "loop" /\ capI' = capI + 1 /\ capFails > 0 /\ InFlight < CapacityC) =>
              /\ pushed' = Append(pushed, capData[capI + 1])
              /\ capFails' = capFails
      ]_vars

C13_Witness ==
    /\ capPc = "return" /\ Len(capData) = 2
    /\ capData[1] \in dropped
    /\ Len(pushed) > 0
    /\ pushed[Len(pushed)] = capData[2]

\* C14 (priming prevents start-up underrun): the first latency_samples pops
\* ever performed succeed and return the primed 0.0, however the capture callback
\* is interleaved, so no pop finds the channel empty and no underrun is flagged or
\* reported before latency_samples samples have been popped; a playback
\* invocation that starts before any pop and whose batch is at most
\* latency_samples long gets only primed samples and reports no underrun.
C14_NoStartupUnderrun ==
    /\ \A k \in 1..Len(popped) : k <= latency_samples => popped[k] = PrimeSample
    /\ (playMiss # {} \/ input_fell_behind \/ playReports > 0) =>
         Len(popped) >= latency_samples
    /\ (playPc \in {"loop", "return"} /\ playStartPops = 0 /\ playN <= latency_samples) =>
         /\ playMiss = {} /\ ~input_fell_behind /\ playReports = 0
         /\ playData = Zeros(Len(playData))

C14_Witness ==
    /\ latency_samples = 2
    /\ playPc = "return" /\ playStartPops = 0 /\ playN = 2
    /\ playData = <<PrimeSample, PrimeSample>>
    /\ capPc = "loop" /\ capI > 0

\* C15 (fullness and emptiness persist without the other side): within one
\* capture invocation a push that follows a failed push fails as well unless a
\* pop has succeeded since that failure; within one playback invocation a pop
\* that follows an empty pop is empty as well unless a push has succeeded since.
C15_FullEmptyPersist ==
    [][ /\ (capPc = "loop" /\ capI' = capI + 1 /\ capFails > 0 /\ ~capPopSinceFail) =>
              /\ capFails' = capFails + 1
              /\ pushed' = pushed /\ ring' = ring
        /\ (/\ playPc = "loop" /\ Len(playData') = Len(playData) + 1
            /\ playMiss # {} /\ ~playPushSinceMiss) =>
              /\ playMiss' = playMiss \cup {Len(playData) + 1}
              /\ popped' = popped /\ ring' = ring
      ]_vars

C15_Witness ==
    /\ latency_samples > 0
    /\ capPc = "return" /\ Len(capData) = 2 /\ capFails = 2 /\ ~capPopSinceFail
    /\ playPc = "loop" /\ playN > 0

\* C16 (Stopped is terminal): the output stream is torn down only after the
\* input stream; once the input stream is torn down the capture callback is not
\* running and cannot be invoked; in Stopped both streams are torn down, no
\* callback is running, the samples still in the channel number anything from 0
\* to its capacity, and no step at all is possible, so nothing is pushed or
\* popped and the lifecycle never leaves Stopped.
C16_StoppedTerminal ==
    /\ (pc \in {"InputDropped", "Stopped"}) =>
         /\ inStream = "dropped" /\ capPc = "idle"
         /\ ~ENABLED CaptureInvoke
         /\ panicAt = "none"
    /\ (outStream = "dropped" /\ pc \notin {"Panicked", "Failed"}) =>
         inStream = "dropped" /\ pc = "Stopped"
    /\ pc = "Stopped" =>
         /\ outStream = "dropped" /\ playPc = "idle"
         /\ InFlight \in 0..CapacityC /\ RingLen(ring) = InFlight
         /\ ~ENABLED Next

C16_Witness ==
    /\ pc = "Stopped"
    /\ latency_samples > 0 /\ RingLen(ring) = CapacityC
    /\ Len(popped) > 0

\* a step of the capture callback; a step of the playback callback
CaptureStep == capPc' # capPc \/ capI' # capI

PlaybackStep == playPc' # playPc \/ Len(playData') # Len(playData)

\* C17 (endpoint exclusivity): a step of the capture callback leaves the head
\* where it is, removes nothing and keeps every enqueued sample, so the contents
\* afterwards are the contents before, possibly with one sample appended; a step
\* of the playback callback leaves the tail where it is, adds nothing, and the
\* contents afterwards are the contents before, possibly without the oldest.
C17_EndpointExclusivity ==
    [][ /\ CaptureStep =>
              /\ ring'.head = ring.head /\ popped' = popped
              /\ \/ ring' = ring
                 \/ /\ RingContents(ring') = Append(RingContents(ring), capData[capI + 1])
                    /\ ring'.tail = (ring.tail + 1) % RingSize(ring)
        /\ PlaybackStep =>
              /\ ring'.tail = ring.tail /\ pushed' = pushed
              /\ \/ ring' = ring
                 \/ /\ RingContents(ring) = <<Head(RingContents(ring))>> \o RingContents(ring')
                    /\ ring'.head = (ring.head + 1) % RingSize(ring)
      ]_vars

C17_Witness ==
    /\ capPc = "loop" /\ capI = 2 /\ capFails = 1
    /\ playPc = "loop" /\ Len(playData) = 1 /\ playMiss = {}
    /\ RingLen(ring) > 0

\* C18 (priming never overflows): whatever the latency depth, the ring is built
\* with capacity exactly 2 * latency_samples, the priming loop never panics on a
\* full ring, and in Primed the ring holds latency_samples samples with
\* latency_samples slots free.
C18_PrimingNeverOverflows ==
    /\ RingBuilt => RingSize(ring) - 1 = 2 * latency_samples
    /\ panicAt # "prime"
    /\ pc = "Primed" =>
         /\ RingLen(ring) = latency_samples
         /\ (RingSize(ring) - 1) - RingLen(ring) = latency_samples

\* C19 (zero-depth edge case): with latency_samples = 0 the ring has capacity 0
\* and priming ends without a panic and without a push; nothing is ever enqueued
\* or dequeued; a capture invocation fails on every sample and reports once iff
\* its batch is non-empty; a playback invocation finds the ring empty at every
\* slot, writes 0.0 everywhere and reports once iff its batch is non-empty.
C19_ZeroDepth ==
    (RingBuilt /\ latency_samples = 0) =>
        /\ RingSize(ring) = 1 /\ RingLen(ring) = 0
        /\ panicAt \notin {"overflow", "prime"}
        /\ pushed = << >> /\ popped = << >>
        /\ capPc \in {"loop", "return"} =>
             /\ capFails = capI
             /\ \A k \in 1..capI : capData[k] \in dropped
             /\ output_fell_behind <=> capI > 0
        /\ capPc = "return" => capReports = (IF Len(capData) > 0 THEN 1 ELSE 0)
        /\ playPc \in {"loop", "return"} =>
             /\ playMiss = 1..Len(playData)
             /\ playData = [k \in 1..Len(playData) |-> Silence]
             /\ input_fell_behind <=> Len(playData) > 0
        /\ playPc = "return" => playReports = (IF playN > 0 THEN 1 ELSE 0)

C19_Witness ==
    /\ latency_samples = 0 /\ pc = "Running"
    /\ capPc = "return" /\ Len(capData) = 2 /\ capReports = 1
    /\ playPc = "return" /\ playN = 2 /\ playReports = 1

\* the frame count of the configuration, truncated toward zero
TruncFrames == (latency * sample_rate) \div MsPerSecond

\* C20 (latency depth truncation): latency_samples is the truncated frame count
\* times the channel count, hence a multiple of the channel count, and the ring
\* capacity is exactly 2 * trunc(frames) * channels.
C20_DepthTruncation ==
    RingBuilt =>
        /\ latency_samples = TruncFrames * channels
        /\ latency_samples % channels = 0
        /\ RingSize(ring) - 1 = 2 * TruncFrames * channels

====
